---- MODULE Spec2Model ----
(***************************************************************************)
(* Model of node-omron-envsensor (lib/envsensor-device.js).                *)
(*                                                                         *)
(* Request engine: EnvsensorDevice.prototype._read / _write wrap one       *)
(* transport call (char.read / char.write of the BLE stack) in a timer of  *)
(* _RESPONSE_TIMEOUT_MSEC and re-issue it from the timer while the shared  *)
(* counter n is below _REQUEST_RETRY_MAX.  Every attempt owns its own      *)
(* `timer` binding; n and the promise are shared by the attempts of one    *)
(* call.  The transport is the environment: every issued call may be       *)
(* answered at most once, at any later moment, or never.                   *)
(*                                                                         *)
(* Paged retrieval: _getTargetPageAndRow, _getRecordedDataListFromPages    *)
(* and _getRecordedSensorDataListFromCurrentPage drive the engine through  *)
(* the sequence Latest page -> Request page -> Response flag -> Response   *)
(* data.                                                                   *)
(***************************************************************************)
EXTENDS Integers, Sequences, FiniteSets, TLC

(***************************************************************************)
(* Program constants.                                                      *)
(***************************************************************************)
\* this._REQUEST_RETRY_MAX = 3
REQUEST_RETRY_MAX == 3
\* `res['row'] > 12` ends the drain loop; `let row = 12` is the full-page anchor
MAX_ROW == 12
\* `res['updateFlag'] !== 0x01`
FLAG_READY == 1

(***************************************************************************)
(* Bounds of the model.                                                    *)
(***************************************************************************)
\* the peripheral streams at most this many rows before the sentinel row
MaxRows == 2

\* discover() / startScan() calls, and init() calls waiting for noble, per run
MaxCalls == 2

\* the rows a peripheral that repeats itself sends before the sentinel row
MaxRepeat == 14

(***************************************************************************)
(* Input domains.                                                          *)
(***************************************************************************)
CH_LATEST_PAGE == "3002"
CH_REQUEST_PAGE == "3003"
CH_RESPONSE_FLAG == "3004"
CH_RESPONSE_DATA == "3005"
CH_MEASUREMENT_INTERVAL == "3011"
CH_EVENT_TEMPERATURE == "3013"
CH_TIME == "3031"
CH_UUID == "3041"
CH_ADV_SETTING == "3042"
AllChars == {CH_LATEST_PAGE, CH_REQUEST_PAGE, CH_RESPONSE_FLAG, CH_RESPONSE_DATA,
             CH_MEASUREMENT_INTERVAL, CH_EVENT_TEMPERATURE, CH_TIME, CH_UUID,
             CH_ADV_SETTING}

\* the sets of characteristics _init may have discovered (this._chars)
CharSets == {AllChars} \cup {AllChars \ {c} : c \in {CH_REQUEST_PAGE, CH_RESPONSE_DATA}}

NoVal == [none |-> TRUE]

\* peripheral.address of the peripherals in range
Addresses == {"a1", "a2"}

\* noble.state after a 'stateChange'
NobleStates == {"poweredOn", "poweredOff"}

Pages == {5, 6}
LatestRows == {4}
Intervals == {60, 300}
Times == {1000}
FlagCodes == {0, 1, 2}
DataRows == {0, 1, 12, 13}
BeaconModes == {2, 8}
ClockTimes == {0, 1000}

\* the fields of a structured value that hold a nested object
ObjectFields == {"event"}

\* the structured values EnvsensorChars.parseResponse can hand back per attribute
Values(c) ==
    CASE c = CH_LATEST_PAGE ->
            [page : Pages, row : LatestRows, measurementInterval : Intervals, unixTime : Times]
      [] c = CH_REQUEST_PAGE -> [page : {0}, row : {0}]
      [] c = CH_RESPONSE_FLAG -> [updateFlag : FlagCodes, unixTime : Times]
      [] c = CH_RESPONSE_DATA -> [row : DataRows]
      [] c = CH_MEASUREMENT_INTERVAL -> [measurementInterval : {300}]
      [] c = CH_EVENT_TEMPERATURE -> [event : {[upper |-> 1, lower |-> 0]}, count : {3}]
      [] c = CH_TIME -> [unixTime : ClockTimes]
      [] c = CH_UUID -> [uuid : {"0C4C3000"}]
      [] c = CH_ADV_SETTING -> [beaconMode : BeaconModes, txPowerLevel : {0}]
      [] OTHER -> {}

VARIABLES
    chars,      \* this._chars: the characteristics discovered on the peripheral
    opKind,     \* "none" | "read" | "write": the engine call in progress
    opChar,     \* char_uuid of that call
    opData,     \* the structured value handed to _write
    n,          \* `let n = 0` of _read/_write, shared by the attempts of the call
    attempts,   \* one entry per readData/writeData invocation: its timer and its transport call
    calls,      \* number of char.read / char.write calls issued for the call
    outcome,    \* the promise returned by _read/_write
    rpc,        \* position of the retrieval
    param,      \* p of _getTargetPageAndRow: null or {page}
    target,     \* p of _getRecordedDataListFromPages: page, row, interval
    time,       \* `let time = 0` of _getRecordedDataListFromPages
    data_list,  \* data_list of _getRecordedSensorDataListFromCurrentPage
    result,     \* the promise of the retrieval
    hist,       \* history: what the retrieval has invoked and seen so far
    noble_state,      \* noble.state
    state_listeners,  \* number of once('stateChange') listeners set by init()
    initialized,      \* Envsensor._initialized
    discover_status,  \* Envsensor._discover_status
    ondiscover,       \* whether Envsensor.ondiscover holds a function
    devices,          \* keys of Envsensor._devices
    listeners,        \* the 'discover' listeners of noble, in the order they were added
    scanning,         \* whether noble is scanning
    sessions,         \* one entry per discover() call that got past _checkInitialized
    shist,            \* history of the scanner: calls made, ondiscover invocations
    pstate,           \* this._peripheral.state
    dlisteners,       \* number of once('disconnect') listeners set by connect()
    was_clean,        \* this._was_clean
    ondisconnected,   \* whether this.ondisconnected holds a function
    conns,            \* one entry per connect() call: how far it got, its promise
    discs,            \* one entry per disconnect() call: who called it, its promise
    chist             \* history of the connection: calls made, the latest 'disconnect' event

evars == <<chars, opKind, opChar, opData, n, attempts, calls, outcome>>
rvars == <<rpc, param, target, time, data_list, result, hist>>
svars == <<noble_state, state_listeners, initialized, discover_status, ondiscover,
           devices, listeners, scanning, sessions, shist>>
cvars == <<pstate, dlisteners, was_clean, ondisconnected, conns, discs, chist>>

\* the state of the objects a device operation leaves alone
ovars == <<svars, cvars>>

vars == <<chars, opKind, opChar, opData, n, attempts, calls, outcome,
          rpc, param, target, time, data_list, result, hist, svars, cvars>>

Pending == [state |-> "pending", val |-> NoVal, err |-> ""]
Resolved(v) == [state |-> "resolved", val |-> v, err |-> ""]
Rejected(e) == [state |-> "rejected", val |-> NoVal, err |-> e]

(***************************************************************************)
(* Request engine: _read and _write.                                       *)
(***************************************************************************)
\* a promise that a second resolve()/reject() would overwrite
SettleAgain(o, new) == new

\* resolve()/reject() of the promise: only the first call settles it
Settle(o, new) == IF o.state = "pending" THEN new ELSE o

\* the retry test off by one: `n <= this._REQUEST_RETRY_MAX`
MayRetryInclusive(k) == k <= REQUEST_RETRY_MAX

\* `if (n < this._REQUEST_RETRY_MAX)` in the timer callback
MayRetry(k) == k < REQUEST_RETRY_MAX

\* `let timer = setTimeout(...)` followed by char.read / char.write
\* xfer and late record what became of the transport call: still "inflight", or
\* answered "ok" / "bad" (undecodable bytes) / "error", and whether the answer
\* came after the attempt's timer had fired
NewAttempt == [timer |-> "armed", xfer |-> "inflight", late |-> FALSE]

\* a transport callback that leaves the attempt's timer running
ClearTimerForgotten(a) == a

\* `if (timer) { clearTimeout(timer); timer = null; }` in the transport callback
ClearTimer(a) == [a EXCEPT !.timer = "null"]

\* the transport callback of an attempt has run with an answer of this kind
Answered(a, kind) == [ClearTimer(a) EXCEPT !.xfer = kind, !.late = (a.timer # "armed")]

ReadKind(ans) == IF ans.error THEN "error" ELSE IF ans.parsed = NoVal THEN "bad" ELSE "ok"

WriteKind(error) == IF error THEN "error" ELSE "ok"

\* the attributes EnvsensorChars.createWriteBuffer knows a write layout for
WritableChars ==
    {CH_REQUEST_PAGE, CH_MEASUREMENT_INTERVAL, CH_EVENT_TEMPERATURE, CH_TIME, CH_UUID,
     CH_ADV_SETTING}

\* Beacon Mode: "The value must be 0, 1, 2, 3, 4, 5, 7, or 8"
ValidBeaconModes == {0, 1, 2, 3, 4, 5, 7, 8}

\* Tx Power: "The value must be -20, -16, -12, -8, -4, 0, or 4"
ValidTxPowerLevels == {-20, -16, -12, -8, -4, 0, 4}

\* the declared domain of the fields of a written value
InDomain(c, data) ==
    CASE c = CH_REQUEST_PAGE ->
            /\ DOMAIN data = {"page", "row"}
            /\ data.page \in 0..2047
            /\ data.row \in 0..MAX_ROW
      [] c = CH_MEASUREMENT_INTERVAL ->
            /\ DOMAIN data = {"measurementInterval"}
            /\ data.measurementInterval \in 1..3600
      [] c = CH_ADV_SETTING ->
            /\ DOMAIN data = {"beaconMode", "txPowerLevel"}
            /\ data.beaconMode \in ValidBeaconModes
            /\ data.txPowerLevel \in ValidTxPowerLevels
      [] c = CH_TIME -> DOMAIN data = {"unixTime"}
      [] c = CH_UUID -> DOMAIN data = {"uuid"}
      [] c = CH_EVENT_TEMPERATURE -> DOMAIN data = {"event", "count"}
      [] OTHER -> FALSE

\* EnvsensorChars.createWriteBuffer(char_uuid, data): null, {error} or {buffer}
createWriteBuffer(c, data) ==
    IF c \notin WritableChars THEN "null"
    ELSE IF ~InDomain(c, data) THEN "error"
    ELSE "buffer"

\* the first readData(callback) / writeData(callback) of a call
FirstAttempt ==
    /\ n' = 1
    /\ attempts' = <<NewAttempt>>
    /\ calls' = 1
    /\ outcome' = Pending

\* a call that rejects only after a first attempt was started
FailFastAfterAttempt(e) ==
    /\ n' = 1
    /\ attempts' = <<NewAttempt>>
    /\ calls' = 1
    /\ outcome' = Rejected(e)

\* a call that rejects before any timer is set or transport call issued
FailFast(e) ==
    /\ n' = 0
    /\ attempts' = <<>>
    /\ calls' = 0
    /\ outcome' = Rejected(e)

\* _read(char_uuid) up to the first readData
read(c) ==
    /\ opKind' = "read"
    /\ opChar' = c
    /\ opData' = NoVal
    /\ UNCHANGED chars
    /\ IF c \notin chars
         THEN FailFast("Unknown characteristic")
         ELSE FirstAttempt

\* a _write that sends the data whatever createWriteBuffer reports
writeUnvalidated(c, data) ==
    /\ opKind' = "write"
    /\ opChar' = c
    /\ opData' = data
    /\ UNCHANGED chars
    /\ IF c \notin chars
         THEN FailFast("Unknown characteristic")
         ELSE IF createWriteBuffer(c, data) = "null"
           THEN FailFast("The characteristic does not support Write.")
           ELSE FirstAttempt

\* _write(char_uuid, data) up to the first writeData
write(c, data) ==
    /\ opKind' = "write"
    /\ opChar' = c
    /\ opData' = data
    /\ UNCHANGED chars
    /\ IF c \notin chars
         THEN FailFast("Unknown characteristic")
         ELSE CASE createWriteBuffer(c, data) = "null" ->
                     FailFast("The characteristic does not support Write.")
                [] createWriteBuffer(c, data) = "error" ->
                     FailFast("Validation")
                [] OTHER -> FirstAttempt

\* a timer callback that gives up after the last attempt without calling back
TimerCallbackSilent(i) ==
    IF MayRetry(n)
      THEN /\ n' = n + 1
           /\ attempts' = Append([attempts EXCEPT ![i].timer = "fired"], NewAttempt)
           /\ calls' = calls + 1
           /\ UNCHANGED outcome
      ELSE /\ attempts' = [attempts EXCEPT ![i].timer = "null"]
           /\ UNCHANGED <<n, calls, outcome>>

\* the timer callback of attempt i: a further attempt, or callback(new Error('Timeout.'))
TimerCallback(i) ==
    IF MayRetry(n)
      THEN /\ n' = n + 1
           /\ attempts' = Append([attempts EXCEPT ![i].timer = "fired"], NewAttempt)
           /\ calls' = calls + 1
           /\ UNCHANGED outcome
      ELSE /\ attempts' = [attempts EXCEPT ![i].timer = "null"]
           /\ outcome' = Settle(outcome, Rejected("Timeout."))
           /\ UNCHANGED <<n, calls>>

\* the timer of attempt i of a _read fires
readTimeout(i) ==
    /\ opKind = "read"
    /\ attempts[i].timer = "armed"
    /\ TimerCallback(i)
    /\ UNCHANGED <<chars, opKind, opChar, opData>>

\* the timer of attempt i of a _write fires
writeTimeout(i) ==
    /\ opKind = "write"
    /\ attempts[i].timer = "armed"
    /\ TimerCallback(i)
    /\ UNCHANGED <<chars, opKind, opChar, opData>>

\* what the transport can answer to a char.read: an error, or bytes that
\* parseResponse decodes to a value or to null
ReadAnswers(c) ==
    {[error |-> TRUE, parsed |-> NoVal]} \cup
    {[error |-> FALSE, parsed |-> v] : v \in Values(c) \cup {NoVal}}

\* the peripheral streams at most MaxRows rows of a page before the sentinel
Streamable(c, ans) ==
    (c = CH_RESPONSE_DATA /\ ~ans.error /\ ans.parsed # NoVal /\ ans.parsed.row <= MAX_ROW)
        => Len(data_list) < MaxRows

\* a char.read callback that drops a transport error instead of reporting it
readCallbackDropsError(ans) ==
    IF ans.error THEN Pending
    ELSE IF ans.parsed # NoVal THEN Resolved(ans.parsed)
    ELSE Rejected("Unknown Response Data")

\* a char.read callback that reports undecodable bytes as a transport error
readCallbackMergesUndecodable(ans) ==
    IF ans.error THEN Rejected("Transport")
    ELSE IF ans.parsed # NoVal THEN Resolved(ans.parsed)
    ELSE Rejected("Transport")

\* callback(error, res) of _read as called from the char.read callback
readCallback(ans) ==
    IF ans.error THEN Rejected("Transport")
    ELSE IF ans.parsed # NoVal THEN Resolved(ans.parsed)
    ELSE Rejected("Unknown Response Data")

\* callback(error) of _write as called from the char.write callback
writeCallback(error) ==
    IF error THEN Rejected("Transport") ELSE Resolved(NoVal)

\* the char.read callback of attempt i runs
readResponse(i, ans) ==
    /\ opKind = "read"
    /\ attempts[i].xfer = "inflight"
    /\ attempts' = [attempts EXCEPT ![i] = Answered(@, ReadKind(ans))]
    /\ outcome' = Settle(outcome, readCallback(ans))
    /\ UNCHANGED <<chars, opKind, opChar, opData, n, calls>>

\* the char.write callback of attempt i runs
writeResponse(i, error) ==
    /\ opKind = "write"
    /\ attempts[i].xfer = "inflight"
    /\ attempts' = [attempts EXCEPT ![i] = Answered(@, WriteKind(error))]
    /\ outcome' = Settle(outcome, writeCallback(error))
    /\ UNCHANGED <<chars, opKind, opChar, opData, n, calls>>

(***************************************************************************)
(* A caller of the engine: one _read or one _write.                        *)
(***************************************************************************)
WriteInputs ==
    {[page |-> 5, row |-> 12], [page |-> 2048, row |-> 0],
     [measurementInterval |-> 600], [measurementInterval |-> 0],
     [measurementInterval |-> 3601],
     [beaconMode |-> 8, txPowerLevel |-> 0], [beaconMode |-> 6, txPowerLevel |-> 0]}

CallRead ==
    /\ opKind = "none"
    /\ rpc = "idle"
    /\ \E c \in AllChars : read(c)
    /\ UNCHANGED <<rvars, ovars>>

CallWrite ==
    /\ opKind = "none"
    /\ rpc = "idle"
    /\ \E c \in AllChars, data \in WriteInputs : write(c, data)
    /\ UNCHANGED <<rvars, ovars>>

ReadTimerFires == \E i \in 1..Len(attempts) : readTimeout(i) /\ UNCHANGED <<rvars, ovars>>

WriteTimerFires == \E i \in 1..Len(attempts) : writeTimeout(i) /\ UNCHANGED <<rvars, ovars>>

ReadAnswered ==
    \E i \in 1..Len(attempts), ans \in ReadAnswers(opChar) :
        Streamable(opChar, ans) /\ readResponse(i, ans) /\ UNCHANGED <<rvars, ovars>>

WriteAnswered ==
    \E i \in 1..Len(attempts), error \in BOOLEAN :
        writeResponse(i, error) /\ UNCHANGED <<rvars, ovars>>

NoHist == [setCalls |-> 0, setDone |-> FALSE, flagReads |-> 0, flag |-> NoVal,
           dataReads |-> 0, arrived |-> <<>>, latest |-> NoVal,
           current |-> NoVal, requested |-> NoVal, status |-> NoVal,
           reads |-> 0, writes |-> 0, input |-> NoVal, modes |-> <<>>]

\* nothing called yet on the device, no 'disconnect' event seen
NoConnHist == [connects |-> 0, disconnects |-> 0, events |-> 0, last |-> NoVal]

\* nothing called yet on the Envsensor object
NoScanHist == [calls |-> 0, starts |-> 0, last |-> "none",
               notified |-> [a \in Addresses |-> 0]]

Init ==
    /\ chars \in CharSets
    /\ opKind = "none"
    /\ opChar = ""
    /\ opData = NoVal
    /\ n = 0
    /\ attempts = <<>>
    /\ calls = 0
    /\ outcome = Pending
    /\ rpc = "idle"
    /\ param = NoVal
    /\ target = NoVal
    /\ time = 0
    /\ data_list = <<>>
    /\ result = Pending
    /\ hist = NoHist
    /\ noble_state = "unknown"
    /\ state_listeners = 0
    /\ initialized = FALSE
    /\ discover_status = FALSE
    /\ ondiscover = FALSE
    /\ devices = {}
    /\ listeners = <<>>
    /\ scanning = FALSE
    /\ sessions = <<>>
    /\ shist = NoScanHist
    /\ pstate = "disconnected"
    /\ dlisteners = 0
    /\ was_clean = FALSE
    /\ ondisconnected = FALSE
    /\ conns = <<>>
    /\ discs = <<>>
    /\ chist = NoConnHist

Next ==
    \/ CallRead
    \/ CallWrite
    \/ ReadTimerFires
    \/ WriteTimerFires
    \/ ReadAnswered
    \/ WriteAnswered

Spec == Init /\ [][Next]_vars

(***************************************************************************)
(* Paged retrieval: getRecordedDataList from _getTargetPageAndRow on.      *)
(* Every step below is the reaction to a settled engine promise or to a    *)
(* setTimeout of _wait / getData.  A call of read/write starts a fresh     *)
(* engine call: n, the timers and the promise of the previous call are     *)
(* local to its closures and cannot be reached from the next one.          *)
(* The display string d['timeStamp'] is not modelled.                      *)
(***************************************************************************)
\* the `p` handed to _getTargetPageAndRow: null, or {page} as validated
Params == {NoVal, [page |-> 5], [page |-> 7]}

\* an anchoring that always starts a requested page at its last row
TargetPageAndRowFullPage(p, res) ==
    IF p # NoVal
      THEN [page |-> p.page, row |-> MAX_ROW, interval |-> res.measurementInterval]
      ELSE [page |-> res.page, row |-> res.row, interval |-> res.measurementInterval]

\* resolve({page, row, interval}) of _getTargetPageAndRow
TargetPageAndRow(p, res) ==
    IF p # NoVal
      THEN [page |-> p.page,
            row |-> IF res.page = p.page THEN res.row ELSE MAX_ROW,
            interval |-> res.measurementInterval]
      ELSE [page |-> res.page, row |-> res.row, interval |-> res.measurementInterval]

\* A params object handed to _setValue maps each key to a scalar or to a nested
\* object (`typeof (v) === 'object'`).
Scalar(x) == [scalar |-> x]
Object(r) == [object |-> r]
IsObject(v) == "object" \in DOMAIN v

\* {page: .., row: ..} and the like: a params object of scalars
ScalarParams(rec) == [k \in DOMAIN rec |-> Scalar(rec[k])]

\* a merge that replaces a nested object by the requested one instead of recursing
overrideObjectShallow(base, obj) ==
    [k \in DOMAIN base |->
        IF k \notin DOMAIN obj THEN base[k]
        ELSE IF IsObject(obj[k])
          THEN [j \in DOMAIN obj[k].object |-> obj[k].object[j].scalar]
          ELSE obj[k].scalar]

\* overrideObject(base, obj) of _setValue: base after the merge.  A nested
\* request recurses into base[k]; Object.keys of a scalar base[k] is empty.
RECURSIVE overrideObject(_, _)
overrideObject(base, obj) ==
    [k \in DOMAIN base |->
        IF k \notin DOMAIN obj THEN base[k]
        ELSE IF IsObject(obj[k])
          THEN IF k \in ObjectFields
                 THEN overrideObject(base[k], obj[k].object)
                 ELSE base[k]
          ELSE obj[k].scalar]

\* the override_num++ done by overrideObject(base, obj) for the keys in `keys`
RECURSIVE override_count(_, _, _)
override_count(base, obj, keys) ==
    IF keys = {} THEN 0
    ELSE LET k == CHOOSE x \in keys : TRUE IN
         (IF IsObject(obj[k])
            THEN IF k \in ObjectFields
                   THEN override_count(base[k], obj[k].object,
                                       DOMAIN base[k] \cap DOMAIN obj[k].object)
                   ELSE 0
            ELSE 1)
         + override_count(base, obj, keys \ {k})

\* a counter that counts every key of the request, matched or not
override_numCountsRequest(base, obj) == Cardinality(DOMAIN obj)

\* override_num after overrideObject(base, obj)
override_num(base, obj) == override_count(base, obj, DOMAIN base \cap DOMAIN obj)

\* rows appended instead of prepended: data_list.push(res)
push(list, res) == Append(list, res)

\* data_list.unshift(res)
unshift(list, res) == <<res>> \o list

\* the stamping loop with `time += interval` ahead of the assignment
StampAfterStep(list, t, interval) ==
    [k \in 1..Len(list) |->
        [row |-> list[k].row, unixTime |-> t + k * interval]]

\* data_list.forEach: d['unixTime'] = time; time += interval
Stamp(list, t, interval) ==
    [k \in 1..Len(list) |->
        [row |-> list[k].row, unixTime |-> t + (k - 1) * interval]]

\* reject(error) of the retrieval
Fail(e) ==
    /\ result' = Settle(result, Rejected(e))
    /\ rpc' = "done"
    /\ UNCHANGED <<evars, param, target, time, data_list, hist>>

\* getRecordedDataList: _getTargetPageAndRow(p) calls getLatestPage()
getTargetPageAndRow ==
    /\ rpc = "idle"
    /\ opKind = "none"
    /\ \E p \in Params : param' = p
    /\ read(CH_LATEST_PAGE)
    /\ rpc' = "anchoring"
    /\ UNCHANGED <<target, time, data_list, result, hist>>
    /\ UNCHANGED ovars

\* Latest page has been read: resolve the anchor, then
\* _getRecordedDataListFromPages calls setRequestPage -> _setValue -> _read
LatestPageRead ==
    /\ rpc = "anchoring"
    /\ outcome.state # "pending"
    /\ IF outcome.state = "rejected"
         THEN Fail(outcome.err)
         ELSE /\ target' = TargetPageAndRow(param, outcome.val)
              /\ hist' = [hist EXCEPT !.latest = outcome.val, !.setCalls = @ + 1]
              /\ read(CH_REQUEST_PAGE)
              /\ rpc' = "set_read"
              /\ UNCHANGED <<param, time, data_list, result>>
    /\ UNCHANGED ovars

\* _setValue after its _read has settled: merge, then throw or _write
setValueThen(c, params, next) ==
    IF outcome.state = "rejected"
      THEN Fail(outcome.err)
      ELSE IF override_num(outcome.val, params) = 0
        THEN /\ result' = Settle(result, Rejected("No parameter was specified."))
             /\ rpc' = "done"
             /\ hist' = [hist EXCEPT !.current = outcome.val]
             /\ UNCHANGED <<evars, param, target, time, data_list>>
        ELSE /\ write(c, overrideObject(outcome.val, params))
             /\ rpc' = next
             /\ hist' = [hist EXCEPT !.current = outcome.val,
                                      !.requested = overrideObject(outcome.val, params),
                                      !.writes = @ + 1]
             /\ UNCHANGED <<param, target, time, data_list, result>>

\* setRequestPage({page, row}): the current value has been read; merge and _write
setValueMerge ==
    /\ rpc = "set_read"
    /\ outcome.state # "pending"
    /\ setValueThen(CH_REQUEST_PAGE,
                    ScalarParams([page |-> target.page, row |-> target.row]),
                    "set_write")
    /\ UNCHANGED ovars

\* the write of Request page has settled: _wait(200)
RequestPageSet ==
    /\ rpc = "set_write"
    /\ outcome.state # "pending"
    /\ IF outcome.state = "rejected"
         THEN Fail(outcome.err)
         ELSE /\ hist' = [hist EXCEPT !.setDone = TRUE]
              /\ rpc' = "wait200"
              /\ UNCHANGED <<evars, param, target, time, data_list, result>>
    /\ UNCHANGED ovars

\* the 200 ms timer fires: getResponseFlag()
SettleDelayOver ==
    /\ rpc = "wait200"
    /\ read(CH_RESPONSE_FLAG)
    /\ hist' = [hist EXCEPT !.flagReads = @ + 1]
    /\ rpc' = "flag"
    /\ UNCHANGED <<param, target, time, data_list, result>>
    /\ UNCHANGED ovars

\* a flag reaction that polls the flag again when it is not ready
ResponseFlagReadPolls ==
    /\ rpc = "flag"
    /\ outcome.state # "pending"
    /\ IF outcome.state = "rejected"
         THEN Fail(outcome.err)
         ELSE IF outcome.val.updateFlag # FLAG_READY
           THEN /\ rpc' = "wait200"
                /\ hist' = [hist EXCEPT !.flag = outcome.val]
                /\ UNCHANGED <<evars, param, target, time, data_list, result>>
           ELSE /\ time' = outcome.val.unixTime
                /\ hist' = [hist EXCEPT !.flag = outcome.val]
                /\ rpc' = "wait100"
                /\ UNCHANGED <<evars, param, target, data_list, result>>
    /\ UNCHANGED ovars

\* a flag reaction that goes on to drain whatever the flag says
ResponseFlagReadUnchecked ==
    /\ rpc = "flag"
    /\ outcome.state # "pending"
    /\ IF outcome.state = "rejected"
         THEN Fail(outcome.err)
         ELSE /\ time' = outcome.val.unixTime
              /\ hist' = [hist EXCEPT !.flag = outcome.val]
              /\ rpc' = "wait100"
              /\ UNCHANGED <<evars, param, target, data_list, result>>
    /\ UNCHANGED ovars

\* Response flag has been read: not ready throws, ready captures the anchor
\* time and starts _wait(100)
ResponseFlagRead ==
    /\ rpc = "flag"
    /\ outcome.state # "pending"
    /\ IF outcome.state = "rejected"
         THEN Fail(outcome.err)
         ELSE IF outcome.val.updateFlag # FLAG_READY
           THEN /\ result' = Rejected("Failed to set the request page")
                /\ rpc' = "done"
                /\ hist' = [hist EXCEPT !.flag = outcome.val]
                /\ UNCHANGED <<evars, param, target, time, data_list>>
           ELSE /\ time' = outcome.val.unixTime
                /\ hist' = [hist EXCEPT !.flag = outcome.val]
                /\ rpc' = "wait100"
                /\ UNCHANGED <<evars, param, target, data_list, result>>
    /\ UNCHANGED ovars

\* getData(callback): getResponseData()
getData ==
    /\ read(CH_RESPONSE_DATA)
    /\ hist' = [hist EXCEPT !.dataReads = @ + 1]
    /\ rpc' = "drain"

\* the 100 ms timer fires: _getRecordedSensorDataListFromCurrentPage starts
SecondDelayOver ==
    /\ rpc = "wait100"
    /\ data_list' = <<>>
    /\ getData
    /\ UNCHANGED <<param, target, time, result>>
    /\ UNCHANGED ovars

\* a drain loop that hands over the rows collected so far when a read fails
ResponseDataReadKeepsPartial ==
    /\ rpc = "drain"
    /\ outcome.state # "pending"
    /\ IF outcome.state = "rejected"
         THEN /\ result' = Resolved([page |-> target.page,
                                     measurementInterval |-> target.interval,
                                     dataList |-> Stamp(data_list, time, target.interval)])
              /\ rpc' = "done"
              /\ UNCHANGED <<evars, param, target, time, data_list, hist>>
         ELSE /\ hist' = [hist EXCEPT !.arrived = Append(@, outcome.val)]
              /\ IF outcome.val.row > MAX_ROW
                   THEN rpc' = "wait10_end" /\ UNCHANGED data_list
                   ELSE rpc' = "wait10_next" /\ data_list' = unshift(data_list, outcome.val)
              /\ UNCHANGED <<evars, param, target, time, result>>
    /\ UNCHANGED ovars

\* a drain loop that already stops at row MAX_ROW
ResponseDataReadStopsEarly ==
    /\ rpc = "drain"
    /\ outcome.state # "pending"
    /\ IF outcome.state = "rejected"
         THEN Fail(outcome.err)
         ELSE /\ hist' = [hist EXCEPT !.arrived = Append(@, outcome.val)]
              /\ IF outcome.val.row >= MAX_ROW
                   THEN rpc' = "wait10_end" /\ UNCHANGED data_list
                   ELSE rpc' = "wait10_next" /\ data_list' = unshift(data_list, outcome.val)
              /\ UNCHANGED <<evars, param, target, time, result>>
    /\ UNCHANGED ovars

\* Response data has been read: a row above MAX_ROW ends the loop, any other
\* row is prepended; either way a 10 ms timer is set
ResponseDataRead ==
    /\ rpc = "drain"
    /\ outcome.state # "pending"
    /\ IF outcome.state = "rejected"
         THEN Fail(outcome.err)
         ELSE /\ hist' = [hist EXCEPT !.arrived = Append(@, outcome.val)]
              /\ IF outcome.val.row > MAX_ROW
                   THEN rpc' = "wait10_end" /\ UNCHANGED data_list
                   ELSE rpc' = "wait10_next" /\ data_list' = unshift(data_list, outcome.val)
              /\ UNCHANGED <<evars, param, target, time, result>>
    /\ UNCHANGED ovars

\* the 10 ms timer after a row fires: getData(callback) again
NextRowDelayOver ==
    /\ rpc = "wait10_next"
    /\ getData
    /\ UNCHANGED <<param, target, time, data_list, result>>
    /\ UNCHANGED ovars

\* the 10 ms timer after the sentinel fires: callback(), resolve(data_list),
\* the rows are stamped and getRecordedDataList resolves
DrainFinished ==
    /\ rpc = "wait10_end"
    /\ data_list' = Stamp(data_list, time, target.interval)
    /\ time' = time + Len(data_list) * target.interval
    /\ result' = Resolved([page |-> target.page,
                           measurementInterval |-> target.interval,
                           dataList |-> Stamp(data_list, time, target.interval)])
    /\ rpc' = "done"
    /\ UNCHANGED <<evars, param, target, hist>>
    /\ UNCHANGED ovars

RetrievalNext ==
    \/ getTargetPageAndRow
    \/ LatestPageRead
    \/ setValueMerge
    \/ RequestPageSet
    \/ SettleDelayOver
    \/ ResponseFlagRead
    \/ SecondDelayOver
    \/ ResponseDataRead
    \/ NextRowDelayOver
    \/ DrainFinished
    \/ ReadTimerFires
    \/ WriteTimerFires
    \/ ReadAnswered
    \/ WriteAnswered

RetrievalSpec == Init /\ [][RetrievalNext]_vars

\* ---- retrieval from a peripheral that streams a whole page ----

\* the row the peripheral sends next: 12, 11, ..., 0 and then 13
ScriptRow ==
    IF Len(hist.arrived) <= MAX_ROW THEN MAX_ROW - Len(hist.arrived) ELSE MAX_ROW + 1

\* every answer to a Response data read carries the next row of the page; the
\* other attributes answer as in ReadAnswers
ScriptedAnswers(c) ==
    IF c = CH_RESPONSE_DATA
      THEN {[error |-> FALSE, parsed |-> [row |-> ScriptRow]]}
      ELSE ReadAnswers(c)

ScriptedReadAnswered ==
    \E i \in 1..Len(attempts), ans \in ScriptedAnswers(opChar) :
        readResponse(i, ans) /\ UNCHANGED <<rvars, ovars>>

ScriptedNext ==
    \/ getTargetPageAndRow
    \/ LatestPageRead
    \/ setValueMerge
    \/ RequestPageSet
    \/ SettleDelayOver
    \/ ResponseFlagRead
    \/ SecondDelayOver
    \/ ResponseDataRead
    \/ NextRowDelayOver
    \/ DrainFinished
    \/ ReadTimerFires
    \/ WriteTimerFires
    \/ ScriptedReadAnswered
    \/ WriteAnswered

ScriptedSpec == Init /\ [][ScriptedNext]_vars

\* ---- retrieval from a peripheral that keeps sending a row ----

\* the row the peripheral sends next: row 0 again and again, MaxRepeat times,
\* and then 13
RepeatRow == IF Len(hist.arrived) < MaxRepeat THEN 0 ELSE MAX_ROW + 1

\* every answer to a Response data read carries that row; the other
\* attributes answer as in ReadAnswers
RepeatedAnswers(c) ==
    IF c = CH_RESPONSE_DATA
      THEN {[error |-> FALSE, parsed |-> [row |-> RepeatRow]]}
      ELSE ReadAnswers(c)

RepeatedReadAnswered ==
    \E i \in 1..Len(attempts), ans \in RepeatedAnswers(opChar) :
        readResponse(i, ans) /\ UNCHANGED <<rvars, ovars>>

RepeatedNext ==
    \/ getTargetPageAndRow
    \/ LatestPageRead
    \/ setValueMerge
    \/ RequestPageSet
    \/ SettleDelayOver
    \/ ResponseFlagRead
    \/ SecondDelayOver
    \/ ResponseDataRead
    \/ NextRowDelayOver
    \/ DrainFinished
    \/ ReadTimerFires
    \/ WriteTimerFires
    \/ RepeatedReadAnswered
    \/ WriteAnswered

RepeatedSpec == Init /\ [][RepeatedNext]_vars

\* ---- _setValue(char_uuid, params) ----

\* the attributes a set operation is tried on: two settable ones, Request page
\* (absent from some peripherals) and the read-only Latest page
SetChars == {CH_MEASUREMENT_INTERVAL, CH_EVENT_TEMPERATURE, CH_REQUEST_PAGE, CH_LATEST_PAGE}

\* params objects: empty, naming fields of one of the values (scalar, nested,
\* scalar for a nested field, nested for a scalar field) or fields of none
SetObjects ==
    {<<>>,
     [measurementInterval |-> Scalar(600)],
     [measurementInterval |-> Scalar(0)],
     [page |-> Scalar(5)],
     [count |-> Scalar(5)],
     [event |-> Object([upper |-> Scalar(0)])],
     [event |-> Object([lower |-> Scalar(1)]), count |-> Scalar(7)],
     [event |-> Object([bogus |-> Scalar(1)])],
     [event |-> Scalar(9)],
     [count |-> Object([upper |-> Scalar(1)])],
     [bogus |-> Scalar(1)]}

\* a call without params, or with one of the objects
SetParams ==
    {[given |-> FALSE, obj |-> <<>>]} \cup {[given |-> TRUE, obj |-> o] : o \in SetObjects}

\* _setValue up to its _read: missing or empty params reject at once
setValue ==
    /\ rpc = "idle"
    /\ opKind = "none"
    /\ \E c \in SetChars, p \in SetParams :
          /\ param' = [char |-> c, given |-> p.given, obj |-> p.obj]
          /\ IF ~p.given \/ DOMAIN p.obj = {}
               THEN /\ result' = Rejected("No parameter was specified.")
                    /\ rpc' = "done"
                    /\ UNCHANGED <<evars, target, time, data_list, hist>>
               ELSE /\ read(c)
                    /\ rpc' = "sv_read"
                    /\ hist' = [hist EXCEPT !.reads = @ + 1]
                    /\ UNCHANGED <<target, time, data_list, result>>
    /\ UNCHANGED ovars

\* the _read of _setValue has settled: merge, then throw or _write
ValueRead ==
    /\ rpc = "sv_read"
    /\ outcome.state # "pending"
    /\ setValueThen(param.char, param.obj, "sv_write")
    /\ UNCHANGED ovars

\* the _write of _setValue has settled: resolve() or reject(error)
ValueWritten ==
    /\ rpc = "sv_write"
    /\ outcome.state # "pending"
    /\ IF outcome.state = "rejected"
         THEN Fail(outcome.err)
         ELSE /\ result' = Resolved(NoVal)
              /\ rpc' = "done"
              /\ UNCHANGED <<evars, param, target, time, data_list, hist>>
    /\ UNCHANGED ovars

SetValueNext ==
    \/ setValue
    \/ ValueRead
    \/ ValueWritten
    \/ ReadTimerFires
    \/ WriteTimerFires
    \/ ReadAnswered
    \/ WriteAnswered

SetValueSpec == Init /\ [][SetValueNext]_vars

\* ---- getRecordedDataList(params) from its entry ----

\* a value given as params.page: its typeof, and for a number its integer part
\* and the tenths of its fractional part (page % 1)
PageInput(type, int, frac) == [type |-> type, int |-> int, frac |-> frac]

\* 0, 5, 2047, 2048, -1, 5.5 and the string "5"
PageInputs ==
    {PageInput("number", 0, 0), PageInput("number", 5, 0), PageInput("number", 2047, 0),
     PageInput("number", 2048, 0), PageInput("number", -1, 0),
     PageInput("number", 5, 5), PageInput("string", 5, 0)}

\* params without a page, or with one of the page values
ListParams == {[given |-> FALSE]} \cup {[given |-> TRUE, page |-> v] : v \in PageInputs}

\* a page check that lets page 2048 through
ValidPageInclusive(page) ==
    ~(page.type # "number" \/ page.frac # 0 \/ page.int < 0 \/ page.int > 2048)

\* the negation of: typeof (page) !== 'number' || page % 1 !== 0 || page < 0 ||
\* page > 2047
ValidPage(page) ==
    ~(page.type # "number" \/ page.frac # 0 \/ page.int < 0 \/ page.int > 2047)

\* unixTime > 0 and beaconMode one of 0, 1, 7, 8
IsRecording(unixTime, mode) == unixTime > 0 /\ mode \in {0, 1, 7, 8}

\* getRecordedDataList: the page check, then getRecordingStatus calls
\* getAdvSetting()
getRecordedDataList ==
    /\ rpc = "idle"
    /\ opKind = "none"
    /\ \E params \in ListParams :
          /\ hist' = [hist EXCEPT !.input = params]
          /\ IF params.given /\ ~ValidPage(params.page)
               THEN /\ result' =
                         Rejected("The page must be an integer in the range of 0 to 2047.")
                    /\ rpc' = "done"
                    /\ UNCHANGED <<evars, param, target, time, data_list>>
               ELSE /\ param' = IF params.given THEN [page |-> params.page.int] ELSE NoVal
                    /\ read(CH_ADV_SETTING)
                    /\ rpc' = "status_adv"
                    /\ UNCHANGED <<target, time, data_list, result>>
    /\ UNCHANGED ovars

\* getRecordingStatus: the advertise setting has been read; getTime()
AdvSettingRead ==
    /\ rpc = "status_adv"
    /\ outcome.state # "pending"
    /\ IF outcome.state = "rejected"
         THEN Fail(outcome.err)
         ELSE /\ hist' = [hist EXCEPT !.status = [beaconMode |-> outcome.val.beaconMode]]
              /\ read(CH_TIME)
              /\ rpc' = "status_time"
              /\ UNCHANGED <<param, target, time, data_list, result>>
    /\ UNCHANGED ovars

\* getRecordingStatus: the time has been read; isRecording is decided and
\* getLatestPage() called
TimeRead ==
    /\ rpc = "status_time"
    /\ outcome.state # "pending"
    /\ IF outcome.state = "rejected"
         THEN Fail(outcome.err)
         ELSE /\ hist' = [hist EXCEPT !.status =
                              [beaconMode |-> @.beaconMode,
                               isRecording |-> IsRecording(outcome.val.unixTime,
                                                           @.beaconMode)]]
              /\ read(CH_LATEST_PAGE)
              /\ rpc' = "status_page"
              /\ UNCHANGED <<param, target, time, data_list, result>>
    /\ UNCHANGED ovars

\* getRecordingStatus resolves; getRecordedDataList throws when isRecording
\* is false and calls _getTargetPageAndRow(p) otherwise
RecordingStatusRead ==
    /\ rpc = "status_page"
    /\ outcome.state # "pending"
    /\ IF outcome.state = "rejected"
         THEN Fail(outcome.err)
         ELSE IF hist.status.isRecording = FALSE
           THEN Fail("The data recording mode has not been started.")
           ELSE /\ read(CH_LATEST_PAGE)
                /\ rpc' = "anchoring"
                /\ UNCHANGED <<param, target, time, data_list, result, hist>>
    /\ UNCHANGED ovars

RecordedDataNext ==
    \/ getRecordedDataList
    \/ AdvSettingRead
    \/ TimeRead
    \/ RecordingStatusRead
    \/ LatestPageRead
    \/ setValueMerge
    \/ RequestPageSet
    \/ SettleDelayOver
    \/ ResponseFlagRead
    \/ SecondDelayOver
    \/ ResponseDataRead
    \/ NextRowDelayOver
    \/ DrainFinished
    \/ ReadTimerFires
    \/ WriteTimerFires
    \/ ReadAnswered
    \/ WriteAnswered

RecordedDataSpec == Init /\ [][RecordedDataNext]_vars

\* ---- startRecording() and stopRecording() ----

\* Math.ceil(Date.now() / 1000) at the time of setTime()
Now == 2000

\* startRecording / stopRecording: `let mode = -1`, then getRecordingStatus
\* calls getAdvSetting()
Recording(method) ==
    /\ rpc = "idle"
    /\ opKind = "none"
    /\ param' = [method |-> method, mode |-> -1]
    /\ read(CH_ADV_SETTING)
    /\ rpc' = "status_adv"
    /\ UNCHANGED <<target, time, data_list, result, hist>>
    /\ UNCHANGED ovars

startRecording == Recording("startRecording")

stopRecording == Recording("stopRecording")

\* setAdvSetting({beaconMode: mode}): _setValue up to its _read
setAdvSetting(mode, next) ==
    /\ read(CH_ADV_SETTING)
    /\ rpc' = next
    /\ hist' = [hist EXCEPT !.modes = Append(@, mode)]

\* stopRecording: getRecordingStatus resolves.  Not recording: resolve(), and
\* the callback returns nothing, so the next then-callback runs with mode
\* still -1.  Recording: mode = res['beaconMode'], setAdvSetting({beaconMode: 2})
StopStatusRead ==
    /\ rpc = "status_page"
    /\ param.method = "stopRecording"
    /\ outcome.state # "pending"
    /\ IF outcome.state = "rejected"
         THEN Fail(outcome.err)
         ELSE IF hist.status.isRecording = FALSE
           THEN /\ result' = Settle(result, Resolved(NoVal))
                /\ setAdvSetting(param.mode, "restore_read")
                /\ UNCHANGED <<param, target, time, data_list>>
           ELSE /\ param' = [param EXCEPT !.mode = hist.status.beaconMode]
                /\ setAdvSetting(2, "transit_read")
                /\ UNCHANGED <<target, time, data_list, result>>
    /\ UNCHANGED ovars

\* stopRecording: the _read of setAdvSetting({beaconMode: 2}) has settled
TransitRead ==
    /\ rpc = "transit_read"
    /\ outcome.state # "pending"
    /\ setValueThen(CH_ADV_SETTING, ScalarParams([beaconMode |-> 2]), "transit_write")
    /\ UNCHANGED ovars

\* a stopRecording that goes on to the restore although the set to 2 failed
TransitWrittenAlwaysRestores ==
    /\ rpc = "transit_write"
    /\ outcome.state # "pending"
    /\ setAdvSetting(param.mode, "restore_read")
    /\ UNCHANGED <<param, target, time, data_list, result>>
    /\ UNCHANGED ovars

\* stopRecording: setAdvSetting({beaconMode: 2}) has settled; on success
\* setAdvSetting({beaconMode: mode})
TransitWritten ==
    /\ rpc = "transit_write"
    /\ outcome.state # "pending"
    /\ IF outcome.state = "rejected"
         THEN Fail(outcome.err)
         ELSE /\ setAdvSetting(param.mode, "restore_read")
              /\ UNCHANGED <<param, target, time, data_list, result>>
    /\ UNCHANGED ovars

\* stopRecording: the _read of setAdvSetting({beaconMode: mode}) has settled
RestoreRead ==
    /\ rpc = "restore_read"
    /\ outcome.state # "pending"
    /\ setValueThen(CH_ADV_SETTING, ScalarParams([beaconMode |-> param.mode]),
                    "restore_write")
    /\ UNCHANGED ovars

\* the last step of startRecording / stopRecording has settled: resolve() or
\* reject(error)
LastStepSettled(at) ==
    /\ rpc = at
    /\ outcome.state # "pending"
    /\ IF outcome.state = "rejected"
         THEN Fail(outcome.err)
         ELSE /\ result' = Settle(result, Resolved(NoVal))
              /\ rpc' = "done"
              /\ UNCHANGED <<evars, param, target, time, data_list, hist>>
    /\ UNCHANGED ovars

RestoreWritten == LastStepSettled("restore_write")

\* setTime(): _write('3031', {unixTime: now})
setTime ==
    /\ write(CH_TIME, [unixTime |-> Now])
    /\ rpc' = "time_write"
    /\ hist' = [hist EXCEPT !.writes = @ + 1]

\* startRecording: getRecordingStatus resolves.  Recording: resolve(), and the
\* callback returns nothing, so the next then-callback calls setTime().  Not
\* recording: mode is the beacon mode if it is 0, 1, 7 or 8 and 8 otherwise,
\* setAdvSetting({beaconMode: mode})
StartStatusRead ==
    /\ rpc = "status_page"
    /\ param.method = "startRecording"
    /\ outcome.state # "pending"
    /\ IF outcome.state = "rejected"
         THEN Fail(outcome.err)
         ELSE IF hist.status.isRecording = TRUE
           THEN /\ result' = Settle(result, Resolved(NoVal))
                /\ setTime
                /\ UNCHANGED <<param, target, time, data_list>>
           ELSE /\ param' = [param EXCEPT !.mode =
                                 IF hist.status.beaconMode \in {0, 1, 7, 8}
                                   THEN hist.status.beaconMode ELSE 8]
                /\ setAdvSetting(param'.mode, "mode_read")
                /\ UNCHANGED <<target, time, data_list, result>>
    /\ UNCHANGED ovars

\* startRecording: the _read of setAdvSetting({beaconMode: mode}) has settled
ModeRead ==
    /\ rpc = "mode_read"
    /\ outcome.state # "pending"
    /\ setValueThen(CH_ADV_SETTING, ScalarParams([beaconMode |-> param.mode]), "mode_write")
    /\ UNCHANGED ovars

\* startRecording: setAdvSetting has settled; on success setTime()
ModeWritten ==
    /\ rpc = "mode_write"
    /\ outcome.state # "pending"
    /\ IF outcome.state = "rejected"
         THEN Fail(outcome.err)
         ELSE /\ setTime
              /\ UNCHANGED <<param, target, time, data_list, result>>
    /\ UNCHANGED ovars

TimeWritten == LastStepSettled("time_write")

RecordingNext ==
    \/ startRecording
    \/ stopRecording
    \/ AdvSettingRead
    \/ TimeRead
    \/ StopStatusRead
    \/ TransitRead
    \/ TransitWritten
    \/ RestoreRead
    \/ RestoreWritten
    \/ StartStatusRead
    \/ ModeRead
    \/ ModeWritten
    \/ TimeWritten
    \/ ReadTimerFires
    \/ WriteTimerFires
    \/ ReadAnswered
    \/ WriteAnswered

RecordingSpec == Init /\ [][RecordingNext]_vars

\* ---- setBasicConfigurations(params) ----

\* params: none, an empty object, an object naming no configuration, a valid
\* interval, a beacon mode outside its domain
ConfigParams ==
    {[given |-> FALSE, obj |-> <<>>],
     [given |-> TRUE, obj |-> <<>>],
     [given |-> TRUE, obj |-> [bogus |-> 1]],
     [given |-> TRUE, obj |-> [measurementInterval |-> 600]],
     [given |-> TRUE, obj |-> [beaconMode |-> 6]]}

\* setBasicConfigurations: getBasicConfigurations calls getMeasurementInterval()
setBasicConfigurations ==
    /\ rpc = "idle"
    /\ opKind = "none"
    /\ \E params \in ConfigParams : hist' = [hist EXCEPT !.input = params]
    /\ param' = [conf |-> <<>>, p |-> <<>>]
    /\ read(CH_MEASUREMENT_INTERVAL)
    /\ rpc' = "conf_interval"
    /\ UNCHANGED <<target, time, data_list, result>>
    /\ UNCHANGED ovars

\* getBasicConfigurations: the interval has been read; getAdvSetting()
ConfIntervalRead ==
    /\ rpc = "conf_interval"
    /\ outcome.state # "pending"
    /\ IF outcome.state = "rejected"
         THEN Fail(outcome.err)
         ELSE /\ param' = [param EXCEPT !.conf =
                               [measurementInterval |-> outcome.val.measurementInterval]]
              /\ read(CH_ADV_SETTING)
              /\ rpc' = "conf_adv"
              /\ UNCHANGED <<target, time, data_list, result, hist>>
    /\ UNCHANGED ovars

\* getBasicConfigurations: the advertise setting has been read; getUuid()
ConfAdvRead ==
    /\ rpc = "conf_adv"
    /\ outcome.state # "pending"
    /\ IF outcome.state = "rejected"
         THEN Fail(outcome.err)
         ELSE /\ param' = [param EXCEPT !.conf =
                               [measurementInterval |-> @.measurementInterval,
                                beaconMode |-> outcome.val.beaconMode,
                                txPowerLevel |-> outcome.val.txPowerLevel]]
              /\ read(CH_UUID)
              /\ rpc' = "conf_uuid"
              /\ UNCHANGED <<target, time, data_list, result, hist>>
    /\ UNCHANGED ovars

\* conf once getUuid() has answered res
ConfWithUuid(conf, res) ==
    [measurementInterval |-> conf.measurementInterval,
     beaconMode |-> conf.beaconMode,
     txPowerLevel |-> conf.txPowerLevel,
     uuid |-> res.uuid]

\* p[k] = (k in params) ? params[k] : res[k], for every k of res
ConfigMerge(res, params) ==
    [k \in DOMAIN res |-> IF k \in DOMAIN params THEN params[k] ELSE res[k]]

\* getBasicConfigurations resolves; setBasicConfigurations merges params into
\* it (`k in params` throws without params) and calls setMeasurementInterval
ConfUuidRead ==
    /\ rpc = "conf_uuid"
    /\ outcome.state # "pending"
    /\ IF outcome.state = "rejected"
         THEN Fail(outcome.err)
         ELSE IF ~hist.input.given
           THEN Fail("TypeError")
           ELSE /\ param' = [conf |-> ConfWithUuid(param.conf, outcome.val),
                             p |-> ConfigMerge(ConfWithUuid(param.conf, outcome.val),
                                               hist.input.obj)]
                /\ read(CH_MEASUREMENT_INTERVAL)
                /\ rpc' = "set_interval_read"
                /\ UNCHANGED <<target, time, data_list, result, hist>>
    /\ UNCHANGED ovars

\* setMeasurementInterval: the _read of _setValue has settled
SetIntervalRead ==
    /\ rpc = "set_interval_read"
    /\ outcome.state # "pending"
    /\ setValueThen(CH_MEASUREMENT_INTERVAL,
                    ScalarParams([measurementInterval |-> param.p.measurementInterval]),
                    "set_interval_write")
    /\ UNCHANGED ovars

\* setMeasurementInterval has settled; on success setUuid({uuid})
SetIntervalWritten ==
    /\ rpc = "set_interval_write"
    /\ outcome.state # "pending"
    /\ IF outcome.state = "rejected"
         THEN Fail(outcome.err)
         ELSE /\ read(CH_UUID)
              /\ rpc' = "set_uuid_read"
              /\ UNCHANGED <<param, target, time, data_list, result, hist>>
    /\ UNCHANGED ovars

\* setUuid: the _read of _setValue has settled
SetUuidRead ==
    /\ rpc = "set_uuid_read"
    /\ outcome.state # "pending"
    /\ setValueThen(CH_UUID, ScalarParams([uuid |-> param.p.uuid]), "set_uuid_write")
    /\ UNCHANGED ovars

\* setUuid has settled; on success setAdvSetting({beaconMode, txPowerLevel})
SetUuidWritten ==
    /\ rpc = "set_uuid_write"
    /\ outcome.state # "pending"
    /\ IF outcome.state = "rejected"
         THEN Fail(outcome.err)
         ELSE /\ read(CH_ADV_SETTING)
              /\ rpc' = "set_adv_read"
              /\ UNCHANGED <<param, target, time, data_list, result, hist>>
    /\ UNCHANGED ovars

\* setAdvSetting: the _read of _setValue has settled
SetAdvRead ==
    /\ rpc = "set_adv_read"
    /\ outcome.state # "pending"
    /\ setValueThen(CH_ADV_SETTING,
                    ScalarParams([beaconMode |-> param.p.beaconMode,
                                  txPowerLevel |-> param.p.txPowerLevel]),
                    "set_adv_write")
    /\ UNCHANGED ovars

SetAdvWritten == LastStepSettled("set_adv_write")

ConfigNext ==
    \/ setBasicConfigurations
    \/ ConfIntervalRead
    \/ ConfAdvRead
    \/ ConfUuidRead
    \/ SetIntervalRead
    \/ SetIntervalWritten
    \/ SetUuidRead
    \/ SetUuidWritten
    \/ SetAdvRead
    \/ SetAdvWritten
    \/ ReadTimerFires
    \/ WriteTimerFires
    \/ ReadAnswered
    \/ WriteAnswered

ConfigSpec == Init /\ [][ConfigNext]_vars

\* ---- Envsensor: init(), discover(), startScan(), stopScan() ----

\* the state of the device object and its engine
dvars == <<evars, rvars, cvars>>

\* init(): _initialized = false, then true at once if noble is powered on,
\* else a once('stateChange') listener is set
init ==
    /\ IF noble_state = "poweredOn"
         THEN initialized' = TRUE /\ UNCHANGED state_listeners
         ELSE /\ state_listeners < MaxCalls
              /\ initialized' = FALSE
              /\ state_listeners' = state_listeners + 1
    /\ UNCHANGED <<noble_state, discover_status, ondiscover, devices, listeners, scanning,
                   sessions, shist, dvars>>

\* noble emits 'stateChange': every listener of init() runs once
NobleStateChange ==
    /\ \E state \in NobleStates \ {noble_state} : noble_state' = state
    /\ initialized' =
           IF state_listeners > 0 /\ noble_state' = "poweredOn" THEN TRUE ELSE initialized
    /\ state_listeners' = 0
    /\ UNCHANGED <<discover_status, ondiscover, devices, listeners, scanning, sessions,
                   shist, dvars>>

\* a check that lets a call through while a scan is in progress
checkInitializedOnly == IF initialized = FALSE THEN "not initialized" ELSE "ok"

\* _checkInitialized(): the Error it throws, or "ok"
checkInitialized ==
    IF initialized = FALSE THEN "not initialized"
    ELSE IF discover_status = TRUE THEN "in progress"
    ELSE "ok"

\* discover() / startScan() end in the throw of _checkInitialized
Throw ==
    /\ shist' = [shist EXCEPT !.calls = @ + 1, !.last = "thrown"]
    /\ UNCHANGED <<noble_state, state_listeners, initialized, discover_status, ondiscover,
                   devices, listeners, scanning, sessions, dvars>>

\* discover(p): a listener, noble.startScanning([], false), the duration timer
discover ==
    /\ shist.calls < MaxCalls
    /\ IF checkInitialized # "ok"
         THEN Throw
         ELSE \E quick \in BOOLEAN :
                /\ devices' = {}
                /\ listeners' = Append(listeners, [kind |-> "discover",
                                                    session |-> Len(sessions) + 1,
                                                    quick |-> quick])
                /\ scanning' = TRUE
                /\ discover_status' = TRUE
                /\ sessions' = Append(sessions, [timer |-> "armed", quick |-> quick,
                                                  promise |-> Pending, by |-> "none"])
                /\ shist' = [calls |-> shist.calls + 1, starts |-> shist.starts + 1,
                             last |-> "started", notified |-> [a \in Addresses |-> 0]]
                /\ UNCHANGED <<noble_state, state_listeners, initialized, ondiscover, dvars>>

\* startScan(p): a listener and noble.startScanning([], true)
startScan ==
    /\ shist.calls < MaxCalls
    /\ IF checkInitialized # "ok"
         THEN Throw
         ELSE /\ listeners' = Append(listeners, [kind |-> "scan", session |-> 0,
                                                  quick |-> FALSE])
              /\ scanning' = TRUE
              /\ discover_status' = TRUE
              /\ shist' = [shist EXCEPT !.calls = @ + 1, !.starts = @ + 1,
                                        !.last = "started"]
              /\ UNCHANGED <<noble_state, state_listeners, initialized, ondiscover, devices,
                             sessions, dvars>>

\* the body of stopScan(): removeAllListeners('discover'), and
\* noble.stopScanning() if a scan is in progress
StopScanning ==
    /\ listeners' = <<>>
    /\ discover_status' = FALSE
    /\ scanning' = IF discover_status = TRUE THEN FALSE ELSE scanning

\* stopScan() called by the user
stopScan ==
    /\ StopScanning
    /\ UNCHANGED <<noble_state, state_listeners, initialized, ondiscover, devices, sessions,
                   shist, dvars>>

\* finishDiscovery() of session i: clearTimeout(timer), stopScan(),
\* resolve(device_list); found is the content of _devices at that moment
finishDiscovery(i, found, by) ==
    /\ StopScanning
    /\ sessions' = [sessions EXCEPT ![i] =
                        [timer |-> IF by = "timer" THEN "fired"
                                   ELSE IF @.timer = "armed" THEN "cleared" ELSE @.timer,
                         quick |-> @.quick,
                         promise |-> Settle(@.promise, Resolved(found)),
                         by |-> IF @.promise.state = "pending" THEN by ELSE @.by]]

\* the duration timer of session i fires
DiscoverTimerFires ==
    \E i \in 1..Len(sessions) :
        /\ sessions[i].timer = "armed"
        /\ finishDiscovery(i, devices, "timer")
        /\ UNCHANGED <<noble_state, state_listeners, initialized, ondiscover, devices,
                       shist, dvars>>

\* a device lookup that does not check whether the address is already known
discoveredDeviceAgain(addr, parsed, match) == parsed /\ match

\* _discoveredDevice(peripheral, id_filter) returns a device (not null)
discoveredDevice(addr, parsed, match) == parsed /\ match /\ addr \notin devices

\* noble emits 'discover' for a peripheral: parsed tells whether
\* EnvsensorAdvertising.parse knows the advertisement, match whether the id
\* passes the filter.  The startScan listener only calls onadvertisement.
Advertisement ==
    /\ scanning
    /\ listeners # <<>>
    /\ \E addr \in Addresses, parsed \in BOOLEAN, match \in BOOLEAN :
          LET l == listeners[1]
              dev == l.kind = "discover" /\ discoveredDevice(addr, parsed, match)
          IN  /\ devices' = IF dev THEN devices \cup {addr} ELSE devices
              /\ shist' = IF dev /\ ondiscover
                            THEN [shist EXCEPT !.notified[addr] = @ + 1]
                            ELSE shist
              /\ IF dev /\ l.quick
                   THEN finishDiscovery(l.session, devices', "quick")
                   ELSE UNCHANGED <<listeners, discover_status, scanning, sessions>>
    /\ UNCHANGED <<noble_state, state_listeners, initialized, ondiscover, dvars>>

\* the user assigns a function to ondiscover, or null
AssignOnDiscover ==
    /\ ondiscover' = ~ondiscover
    /\ UNCHANGED <<noble_state, state_listeners, initialized, discover_status, devices,
                   listeners, scanning, sessions, shist, dvars>>

ScanNext ==
    \/ init
    \/ NobleStateChange
    \/ discover
    \/ startScan
    \/ stopScan
    \/ DiscoverTimerFires
    \/ Advertisement
    \/ AssignOnDiscover

ScanSpec == Init /\ [][ScanNext]_vars

\* the duration timers of discover() fire
ScanLiveSpec == ScanSpec /\ WF_vars(DiscoverTimerFires)

\* ---- EnvsensorDevice: connect(), disconnect(), ondisconnected ----

\* isConnected()
isConnected == pstate = "connected"

\* connect(): resolve() if connected; else a once('disconnect') listener is
\* set and p.connect is called
connect ==
    /\ chist.connects < MaxCalls
    /\ IF isConnected
         THEN /\ conns' = Append(conns, [stage |-> "done", promise |-> Resolved(NoVal)])
              /\ UNCHANGED <<pstate, dlisteners>>
         ELSE /\ conns' = Append(conns, [stage |-> "connecting", promise |-> Pending])
              /\ dlisteners' = dlisteners + 1
              /\ pstate' = "connecting"
    /\ chist' = [chist EXCEPT !.connects = @ + 1]
    /\ UNCHANGED <<was_clean, ondisconnected, discs, evars, rvars, svars>>

ConnectError == Rejected("Failed to connect to the device")

\* the peripheral answers p.connect: the callback of every connect() call
\* waiting for it runs, with an error (reject) or without (this._init())
ConnectAnswered ==
    /\ \E i \in 1..Len(conns) : conns[i].stage = "connecting"
    /\ \E error \in BOOLEAN :
          /\ pstate' = IF error THEN "error" ELSE "connected"
          /\ conns' = [i \in 1..Len(conns) |->
                          IF conns[i].stage # "connecting" THEN conns[i]
                          ELSE IF error THEN [stage |-> "done", promise |-> ConnectError]
                          ELSE [stage |-> "init", promise |-> Pending]]
    /\ UNCHANGED <<dlisteners, was_clean, ondisconnected, discs, chist, evars, rvars, svars>>

\* the body of disconnect() called by owner (0: the user, i: the catch
\* handler of connect() call i): _was_clean = true and p.disconnect if
\* connected, else resolve()
disconnectBody(owner) ==
    IF isConnected
      THEN /\ was_clean' = TRUE
           /\ pstate' = "disconnecting"
           /\ discs' = Append(discs, [owner |-> owner, promise |-> Pending])
      ELSE /\ discs' = Append(discs, [owner |-> owner, promise |-> Resolved(NoVal)])
           /\ UNCHANGED <<was_clean, pstate>>

\* disconnect() called by the user
disconnect ==
    /\ chist.disconnects < MaxCalls
    /\ disconnectBody(0)
    /\ chist' = [chist EXCEPT !.disconnects = @ + 1]
    /\ UNCHANGED <<dlisteners, ondisconnected, conns, evars, rvars, svars>>

\* p.discoverAllServicesAndCharacteristics answers connect() call i: _chars
\* is filled and the call resolves, or on an error this.disconnect() is
\* called and the call rejects once that has settled
InitAnswered ==
    \E i \in 1..Len(conns), error \in BOOLEAN :
        /\ conns[i].stage = "init"
        /\ IF ~error
             THEN /\ \E found \in CharSets : chars' = chars \cup found
                  /\ conns' = [conns EXCEPT ![i] =
                                   [stage |-> "done", promise |-> Resolved(NoVal)]]
                  /\ UNCHANGED <<was_clean, pstate, discs>>
             ELSE /\ disconnectBody(i)
                  /\ conns' = [conns EXCEPT ![i] =
                                   IF isConnected
                                     THEN [stage |-> "cleanup", promise |-> Pending]
                                     ELSE [stage |-> "done", promise |-> ConnectError]]
                  /\ UNCHANGED chars
        /\ UNCHANGED <<dlisteners, ondisconnected, chist, rvars, svars,
                       opKind, opChar, opData, n, attempts, calls, outcome>>

\* what the once('disconnect') listeners of connect() tell ondisconnected
\* during one event: each reports _was_clean and resets it, if
\* ondisconnected is a function
DisconnectReports ==
    IF ondisconnected
      THEN [k \in 1..dlisteners |-> IF k = 1 THEN was_clean ELSE FALSE]
      ELSE <<>>

\* the peripheral emits 'disconnect': the listeners of connect() run and are
\* gone, then the callback of every pending p.disconnect runs
\* (removeAllListeners('disconnect'), resolve()); requested tells whether a
\* disconnect() call caused the event
EmitDisconnect(requested) ==
    /\ pstate' = "disconnected"
    /\ dlisteners' = 0
    /\ was_clean' = IF ondisconnected /\ dlisteners > 0 THEN FALSE ELSE was_clean
    /\ discs' = [k \in 1..Len(discs) |->
                    [discs[k] EXCEPT !.promise = Settle(@, Resolved(NoVal))]]
    /\ conns' = [i \in 1..Len(conns) |->
                    IF conns[i].stage = "cleanup"
                      THEN [stage |-> "done", promise |-> ConnectError]
                      ELSE conns[i]]
    /\ chist' = [chist EXCEPT !.events = @ + 1,
                              !.last = [requested |-> requested,
                                        reports |-> DisconnectReports]]
    /\ UNCHANGED <<ondisconnected, evars, rvars, svars>>

\* some p.disconnect has not called back yet
DisconnectPending == \E k \in 1..Len(discs) : discs[k].promise.state = "pending"

\* the disconnection asked for by disconnect() takes place
Disconnected ==
    /\ DisconnectPending
    /\ EmitDisconnect(TRUE)

\* the connection is lost without disconnect() having been called
ConnectionLost ==
    /\ isConnected
    /\ ~DisconnectPending
    /\ EmitDisconnect(FALSE)

\* the user assigns a function to ondisconnected, or null
AssignOnDisconnected ==
    /\ ondisconnected' = ~ondisconnected
    /\ UNCHANGED <<pstate, dlisteners, was_clean, conns, discs, chist, evars, rvars, svars>>

ConnectNext ==
    \/ connect
    \/ ConnectAnswered
    \/ InitAnswered
    \/ disconnect
    \/ Disconnected
    \/ ConnectionLost
    \/ AssignOnDisconnected

ConnectSpec == Init /\ [][ConnectNext]_vars

\* started timers eventually fire
LiveSpec == Spec /\ WF_vars(ReadTimerFires) /\ WF_vars(WriteTimerFires)

(***************************************************************************)
(* Properties of the request engine.                                       *)
(***************************************************************************)
Started == calls >= 1

Unanswered == \A i \in 1..Len(attempts) : attempts[i].xfer = "inflight"

TimerArmed == \E i \in 1..Len(attempts) : attempts[i].timer = "armed"

\* attempt i timed out and has not been answered
Stalled(i) == attempts[i].timer = "fired" /\ attempts[i].xfer = "inflight"

\* C1: while no transport call of a started read or write has been answered,
\* the call stays pending as long as a timer runs, and once it has settled it
\* has failed with the Timeout error after exactly REQUEST_RETRY_MAX transport
\* calls, never fewer and never more.
C1_StallFailsAfterThreeCalls ==
    (Started /\ Unanswered) =>
        /\ calls <= REQUEST_RETRY_MAX
        /\ (outcome.state = "pending") <=> TimerArmed
        /\ (outcome.state # "pending") =>
               /\ outcome = Rejected("Timeout.")
               /\ calls = REQUEST_RETRY_MAX

C1_Witness ==
    /\ opKind = "read"
    /\ Unanswered
    /\ calls = REQUEST_RETRY_MAX
    /\ outcome = Rejected("Timeout.")

\* C2: for k in 0..2, when the first k attempts timed out unanswered and
\* attempt k+1 was answered successfully before its timer fired, the call has
\* resolved and exactly k+1 transport calls have been issued.
C2_SucceedsAfterKTimeouts ==
    \A k \in 0..(REQUEST_RETRY_MAX - 1) :
        ( /\ Len(attempts) >= k + 1
          /\ \A i \in 1..k : Stalled(i)
          /\ attempts[k + 1].xfer = "ok"
          /\ ~attempts[k + 1].late )
        => (outcome.state = "resolved" /\ calls = k + 1)

C2_Witness ==
    /\ opKind = "write"
    /\ Len(attempts) = REQUEST_RETRY_MAX
    /\ Stalled(1) /\ Stalled(2)
    /\ attempts[3].xfer = "ok" /\ ~attempts[3].late
    /\ outcome.state = "resolved"

\* a transport callback reports an error in this step
ErrorAnswerStep ==
    \E i \in 1..Len(attempts) :
        /\ attempts[i].xfer = "inflight"
        /\ Len(attempts') >= i
        /\ attempts'[i].xfer = "error"

\* C3 as claimed: a call fails with a transport error only once the attempt
\* budget is exhausted (an error on an earlier attempt is retried).
C3_ErrorRetriedUntilBudget ==
    (outcome.state = "rejected" /\ outcome.err = "Transport") => calls = REQUEST_RETRY_MAX

\* C3 amended: a transport error answer issues no new attempt; it leaves the
\* call settled, and a call that was still pending fails at once with that
\* transport error, whatever the number of attempts made so far.
C3_ErrorFailsAtOnce ==
    [][ErrorAnswerStep =>
          /\ calls' = calls
          /\ n' = n
          /\ outcome'.state # "pending"
          /\ (outcome.state = "pending" => outcome' = Rejected("Transport"))]_vars

C3_Witness ==
    /\ calls = 1
    /\ attempts[1].xfer = "error"
    /\ outcome = Rejected("Transport")

\* C4: every started read or write eventually settles, provided started timers
\* eventually fire.
C4_EveryCallSettles == (opKind # "none") ~> (outcome.state # "pending")

C4_Witness ==
    /\ opKind = "write"
    /\ calls = REQUEST_RETRY_MAX
    /\ attempts[1].late /\ attempts[1].xfer = "ok"
    /\ Stalled(2)
    /\ outcome.state = "resolved"

\* C5: the number of transport calls issued for one read or write never exceeds
\* REQUEST_RETRY_MAX.
C5_CallsBounded == calls <= REQUEST_RETRY_MAX /\ Len(attempts) = calls

C5_Witness ==
    /\ calls = REQUEST_RETRY_MAX
    /\ attempts[1].late
    /\ attempts[2].late
    /\ attempts[3].timer = "null"

\* C6: once the promise of a read or write has settled, no later step (a late
\* transport answer included) changes the outcome delivered to the caller.
C6_SettlesOnce == [][outcome.state # "pending" => outcome' = outcome]_vars

C6_Witness ==
    /\ outcome = Rejected("Timeout.")
    /\ \E i \in 1..Len(attempts) : attempts[i].xfer = "ok"

(***************************************************************************)
(* Properties of the paged retrieval.                                      *)
(***************************************************************************)
Rows(list) == [k \in 1..Len(list) |-> list[k].row]

Reverse(s) == [k \in 1..Len(s) |-> s[Len(s) + 1 - k]]

IsRow(r) == r <= MAX_ROW

\* the rows read so far in arrival order, the sentinel left out
ArrivedRows == SelectSeq(Rows(hist.arrived), IsRow)

SentinelSeen == \E k \in 1..Len(hist.arrived) : hist.arrived[k].row > MAX_ROW

FlagSeen == hist.flag # NoVal

\* C7: Request page is set at most once and has completed before the Response
\* flag is read; the flag is read at most once and has returned ready before
\* any Response data read; a retrieval that resolved did each exactly once.
C7_RetrievalStepsInOrder ==
    /\ hist.setCalls <= 1
    /\ hist.flagReads <= 1
    /\ hist.flagReads >= 1 => (hist.setCalls = 1 /\ hist.setDone)
    /\ hist.dataReads >= 1 =>
           (hist.flagReads = 1 /\ FlagSeen /\ hist.flag.updateFlag = FLAG_READY)
    /\ result.state = "resolved" =>
           (hist.setCalls = 1 /\ hist.flagReads = 1 /\ hist.dataReads >= 1)

C7_Witness ==
    /\ result.state = "resolved"
    /\ hist.dataReads = 2
    /\ Len(result.val.dataList) = 1

\* C8: when the Response flag read returned an updateFlag other than
\* FLAG_READY, the retrieval has rejected, no Response data read has been
\* issued and the flag has been read only once.
C8_NotReadyFlagRejects ==
    (FlagSeen /\ hist.flag.updateFlag # FLAG_READY) =>
        /\ result = Rejected("Failed to set the request page")
        /\ rpc = "done"
        /\ hist.dataReads = 0
        /\ hist.flagReads = 1

C8_Witness ==
    /\ FlagSeen
    /\ hist.flag.updateFlag = 2
    /\ result.state = "rejected"

\* C9: the drain loop stops at the first row above MAX_ROW and reads no
\* further; that row is not in the list; the list is the reverse of the
\* arrival order of the other rows (ascending when they arrived descending).
C9_DrainStopsAtSentinel ==
    /\ \A k \in 1..Len(hist.arrived) :
           hist.arrived[k].row > MAX_ROW => k = Len(hist.arrived)
    /\ SentinelSeen =>
           (rpc \in {"wait10_end", "done"} /\ hist.dataReads = Len(hist.arrived))
    /\ Rows(data_list) = Reverse(ArrivedRows)
    /\ result.state = "resolved" =>
           (SentinelSeen /\ Rows(result.val.dataList) = Reverse(ArrivedRows))
    /\ (\A k \in 1..(Len(ArrivedRows) - 1) : ArrivedRows[k] > ArrivedRows[k + 1]) =>
           (\A k \in 1..(Len(data_list) - 1) : data_list[k].row < data_list[k + 1].row)

C9_Witness ==
    /\ result.state = "resolved"
    /\ Len(result.val.dataList) = 2
    /\ result.val.dataList[1].row < result.val.dataList[2].row
    /\ Len(hist.arrived) = 3

\* C10 as claimed: every record of the result is stamped with the anchor time
\* plus its own row number times the measurement interval.
C10_StampedByRowNumber ==
    result.state = "resolved" =>
        \A k \in 1..Len(result.val.dataList) :
            result.val.dataList[k].unixTime =
                hist.flag.unixTime
                  + result.val.dataList[k].row * hist.latest.measurementInterval

\* C10 amended: the record at 0-based position j of the result is stamped with
\* the anchor time plus j times the measurement interval reported by Latest
\* page; this is its row number times the interval when the rows of the list
\* are 0, 1, 2, ... (the page was streamed down to row 0).
C10_StampedByPosition ==
    result.state = "resolved" =>
        LET list == result.val.dataList IN
        /\ result.val.measurementInterval = hist.latest.measurementInterval
        /\ \A k \in 1..Len(list) :
               list[k].unixTime =
                   hist.flag.unixTime + (k - 1) * hist.latest.measurementInterval
        /\ (\A k \in 1..Len(list) : list[k].row = k - 1) =>
               (\A k \in 1..Len(list) :
                   list[k].unixTime =
                       hist.flag.unixTime
                         + list[k].row * hist.latest.measurementInterval)

C10_Witness ==
    /\ result.state = "resolved"
    /\ Len(result.val.dataList) = 2
    /\ result.val.dataList[1].row = 0
    /\ result.val.dataList[2].row = 1
    /\ result.val.dataList[2].unixTime = hist.flag.unixTime + hist.latest.measurementInterval

\* ---- the whole page ----

\* the result lists the rows in ascending order, each stamped one measurement
\* interval after the one before it, the first with the ready flag's unixTime
AscendingFromAnchor(list) ==
    /\ \A k \in 1..(Len(list) - 1) :
           /\ list[k].row < list[k + 1].row
           /\ list[k + 1].unixTime = list[k].unixTime + result.val.measurementInterval
    /\ Len(list) >= 1 => list[1].unixTime = hist.flag.unixTime

\* C11 as claimed: a peripheral that streams rows 12, 11, ..., 0 and then row
\* 13 yields an ascending list of 12 records, stamped one measurement interval
\* apart from the ready flag's unixTime on.
C11_ScriptYieldsTwelve ==
    result.state = "resolved" =>
        /\ Len(result.val.dataList) = 12
        /\ AscendingFromAnchor(result.val.dataList)

\* C11 amended: a peripheral that streams rows 12, 11, ..., 0 and then row 13
\* yields an ascending list of 13 records (rows 0 to 12), stamped one
\* measurement interval apart from the ready flag's unixTime on.
C11_ScriptYieldsThirteen ==
    result.state = "resolved" =>
        /\ Len(result.val.dataList) = MAX_ROW + 1
        /\ \A k \in 1..Len(result.val.dataList) : result.val.dataList[k].row = k - 1
        /\ AscendingFromAnchor(result.val.dataList)
        /\ result.val.measurementInterval = hist.latest.measurementInterval

C11_Witness ==
    /\ result.state = "resolved"
    /\ Rows(hist.arrived) = [k \in 1..(MAX_ROW + 2) |-> IF k <= MAX_ROW + 1 THEN MAX_ROW + 1 - k ELSE MAX_ROW + 1]
    /\ result.val.dataList[MAX_ROW + 1].unixTime =
           hist.flag.unixTime + MAX_ROW * hist.latest.measurementInterval

\* ---- anchoring ----

\* the Request page write of the retrieval is under way or has been issued
RequestPageWritten == opKind = "write" /\ opChar = CH_REQUEST_PAGE

\* C12: without a target page the anchor is the latest page and latest row
\* reported by Latest page; with the latest page as target the anchor row is the
\* reported latest row; with any other target page the anchor row is 12.  The
\* page written to Request page and the page of the result are the anchor page.
C12_AnchorResolved ==
    target # NoVal =>
        /\ param = NoVal =>
               (target.page = hist.latest.page /\ target.row = hist.latest.row)
        /\ (param # NoVal /\ param.page = hist.latest.page) =>
               (target.page = param.page /\ target.row = hist.latest.row)
        /\ (param # NoVal /\ param.page # hist.latest.page) =>
               (target.page = param.page /\ target.row = 12)
        /\ RequestPageWritten =>
               (opData.page = target.page /\ opData.row = target.row)
        /\ result.state = "resolved" => result.val.page = target.page

C12_Witness ==
    /\ result.state = "resolved"
    /\ param = [page |-> 5]
    /\ hist.latest.page = 5
    /\ hist.latest.row = 4
    /\ hist.requested.page = 5
    /\ hist.requested.row = 4
    /\ result.val.page = 5

\* ---- failures during a retrieval ----

\* the steps of a retrieval that wait for a read or a write to settle
RetrievalWaits == {"anchoring", "set_read", "set_write", "flag", "drain"}

\* C13: when a read or write of a retrieval fails (Latest page, Request page,
\* Response flag or any Response data read), the retrieval rejects with that
\* error; a rejected retrieval stays rejected and carries no record list.
C13_FailureRejectsWholeRetrieval ==
    [][/\ (rpc \in RetrievalWaits /\ outcome.state = "rejected" /\ rpc' # rpc) =>
              (result' = Rejected(outcome.err) /\ rpc' = "done")
       /\ result.state = "rejected" => result' = result
       /\ result'.state = "rejected" => result'.val = NoVal]_vars

C13_Witness ==
    /\ result.state = "rejected"
    /\ result.err = "Transport"
    /\ hist.dataReads = 2
    /\ Len(data_list) = 1
    /\ result.val = NoVal

\* ---- set operations ----

\* a set operation has been called
SetCalled == rpc \in {"sv_read", "sv_write", "done"}

\* the current value has been read and handed to the merge
CurrentRead == hist.current # NoVal

\* no scalar of the request sits on a path that the current value has
NamesNothing(current, obj) ==
    \A k \in DOMAIN current \cap DOMAIN obj :
        /\ IsObject(obj[k])
        /\ k \in ObjectFields =>
               \A j \in DOMAIN current[k] \cap DOMAIN obj[k].object :
                   IsObject(obj[k].object[j])

\* C14: a set operation whose params are missing or empty, or name no field of
\* the value just read, is rejected with 'No parameter was specified.' and no
\* write is issued (missing or empty params issue no read either).
C14_ZeroOverridesRejected ==
    SetCalled =>
        /\ (~param.given \/ DOMAIN param.obj = {}) =>
               /\ result = Rejected("No parameter was specified.")
               /\ opKind = "none"
               /\ calls = 0
               /\ hist.reads = 0
        /\ (CurrentRead /\ NamesNothing(hist.current, param.obj)) =>
               /\ result = Rejected("No parameter was specified.")
               /\ opKind = "read"
               /\ hist.writes = 0

C14_Witness ==
    /\ SetCalled
    /\ param.char = CH_EVENT_TEMPERATURE
    /\ param.obj = [event |-> Object([bogus |-> Scalar(1)])]
    /\ CurrentRead
    /\ result = Rejected("No parameter was specified.")

\* merged is current with the scalars of the request put in place, field by
\* field and, for a nested request on a nested value, sub-field by sub-field
Merged(current, obj, merged) ==
    /\ DOMAIN merged = DOMAIN current
    /\ \A k \in DOMAIN current :
           IF k \notin DOMAIN obj THEN merged[k] = current[k]
           ELSE IF ~IsObject(obj[k]) THEN merged[k] = obj[k].scalar
           ELSE IF k \notin ObjectFields THEN merged[k] = current[k]
           ELSE /\ DOMAIN merged[k] = DOMAIN current[k]
                /\ \A j \in DOMAIN current[k] :
                       merged[k][j] =
                           IF j \in DOMAIN obj[k].object /\ ~IsObject(obj[k].object[j])
                             THEN obj[k].object[j].scalar
                             ELSE current[k][j]

\* C15: a set operation issues its write only after one read of the current
\* value has resolved, and the value handed to the write is the value read
\* with the requested fields replaced, nested objects merged sub-field by
\* sub-field; every field the request does not name keeps the value read.
C15_MergeOnWrite ==
    (SetCalled /\ hist.writes > 0) =>
        /\ hist.reads = 1
        /\ hist.writes = 1
        /\ CurrentRead
        /\ Merged(hist.current, param.obj, hist.requested)
        /\ opKind = "write"
        /\ opChar = param.char
        /\ opData = hist.requested

C15_Witness ==
    /\ SetCalled
    /\ hist.writes = 1
    /\ param.obj = [event |-> Object([lower |-> Scalar(1)]), count |-> Scalar(7)]
    /\ hist.current = [event |-> [upper |-> 1, lower |-> 0], count |-> 3]
    /\ hist.requested = [event |-> [upper |-> 1, lower |-> 1], count |-> 7]
    /\ result.state = "resolved"

\* ---- calls that fail without the transport, and undecodable answers ----

\* no transport call has been issued and no timer set by the current call
NothingIssued == calls = 0 /\ n = 0 /\ attempts = <<>>

\* the current call is a write of a discovered, writable attribute
WriteEncodable == opKind = "write" /\ opChar \in chars /\ opChar \in WritableChars

\* C16: a write whose value fails the codec's domain validation (such as
\* measurementInterval 0 or 3601, or beaconMode 6) is rejected with the
\* validation error and no transport write call is issued.
C16_InvalidValueNotWritten ==
    /\ (WriteEncodable /\ ~InDomain(opChar, opData)) =>
           (outcome = Rejected("Validation") /\ NothingIssued)
    /\ (WriteEncodable /\ opChar = CH_MEASUREMENT_INTERVAL
          /\ DOMAIN opData = {"measurementInterval"}
          /\ opData.measurementInterval \in {0, 3601}) =>
           (outcome = Rejected("Validation") /\ NothingIssued)
    /\ (WriteEncodable /\ opChar = CH_ADV_SETTING
          /\ DOMAIN opData = {"beaconMode", "txPowerLevel"}
          /\ opData.beaconMode = 6) =>
           (outcome = Rejected("Validation") /\ NothingIssued)

C16_Witness ==
    /\ opKind = "write"
    /\ opChar = CH_ADV_SETTING
    /\ opChar \in chars
    /\ opData = [beaconMode |-> 6, txPowerLevel |-> 0]
    /\ outcome = Rejected("Validation")
    /\ calls = 0

\* C17: a read or write of an attribute that was not discovered, and a write
\* of an attribute without a write encoding, are rejected with no transport
\* call issued and no timer set.
C17_UnsupportedFailsFast ==
    /\ (opKind # "none" /\ opChar \notin chars) =>
           (outcome = Rejected("Unknown characteristic") /\ NothingIssued)
    /\ (opKind = "write" /\ opChar \in chars /\ opChar \notin WritableChars) =>
           (outcome = Rejected("The characteristic does not support Write.")
              /\ NothingIssued)

C17_Witness ==
    /\ opKind = "read"
    /\ opChar = CH_RESPONSE_DATA
    /\ opChar \notin chars
    /\ outcome.state = "rejected"
    /\ attempts = <<>>

\* a char.read callback runs with bytes that cannot be decoded
UndecodableAnswerStep ==
    \E i \in 1..Len(attempts) :
        /\ attempts[i].xfer = "inflight"
        /\ Len(attempts') >= i
        /\ attempts'[i].xfer = "bad"

\* some transport call of the current call was answered with this kind
SomeAnswer(kind) == \E i \in 1..Len(attempts) : attempts[i].xfer = kind

\* C18: a read answered with bytes that cannot be decoded fails with 'Unknown
\* Response Data' if it was still pending; that error comes from no timeout
\* and no transport error, and those two never come from undecodable bytes.
C18_UndecodableIsItsOwnError ==
    [][/\ UndecodableAnswerStep =>
              /\ outcome'.state # "pending"
              /\ outcome.state = "pending" => outcome' = Rejected("Unknown Response Data")
       /\ outcome'.err = "Unknown Response Data" => SomeAnswer("bad")'
       /\ outcome'.err = "Transport" => SomeAnswer("error")'
       /\ outcome'.err = "Timeout." => calls' = REQUEST_RETRY_MAX]_vars

C18_Witness ==
    /\ opKind = "read"
    /\ calls = 2
    /\ attempts[2].xfer = "bad"
    /\ outcome = Rejected("Unknown Response Data")

\* ---- getRecordedDataList: recording status and page check ----

\* getRecordingStatus has decided isRecording
StatusKnown == "isRecording" \in DOMAIN hist.status

\* C19 as claimed: getRecordedDataList rejects when getRecordingStatus reports
\* that the data recording mode has been started (isRecording = true).
C19_RejectsWhenRecording ==
    (rpc = "done" /\ StatusKnown /\ hist.status.isRecording) => result.state = "rejected"

\* getRecordedDataList has been called
ListCalled == hist.input # NoVal

PageError == Rejected("The page must be an integer in the range of 0 to 2047.")

\* the given page is a whole number from 0 to 2047
PageInRange(page) == page.type = "number" /\ page.frac = 0 /\ page.int \in 0..2047

\* C20: getRecordedDataList given a page that is not an integer in 0..2047
\* rejects with the page-range error with no read or write issued; any other
\* call gets past the page check, and one without a page anchors at, writes
\* and returns the latest page.
C20_PageChecked ==
    ListCalled =>
        IF hist.input.given /\ ~PageInRange(hist.input.page)
          THEN result = PageError /\ opKind = "none" /\ NothingIssued /\ rpc = "done"
          ELSE /\ result # PageError
               /\ opKind # "none"
               /\ (~hist.input.given /\ target # NoVal) =>
                      /\ target.page = hist.latest.page
                      /\ RequestPageWritten => opData.page = hist.latest.page
                      /\ result.state = "resolved" => result.val.page = hist.latest.page

C20_Witness ==
    /\ ListCalled
    /\ hist.input.given
    /\ hist.input.page = PageInput("number", 2048, 0)
    /\ result = PageError
    /\ calls = 0

\* ---- stopRecording and startRecording ----

\* stopRecording has been called
Stopping == rpc # "idle" /\ "method" \in DOMAIN param /\ param.method = "stopRecording"

\* startRecording has been called
Starting == rpc # "idle" /\ "method" \in DOMAIN param /\ param.method = "startRecording"

\* C21: every beacon mode stopRecording asks setAdvSetting for is the
\* transitional mode 2 or, after it, the mode captured from the status; it
\* never asks for the placeholder -1, a device that is not recording included.
C21_RestoresOnlyCapturedMode ==
    Stopping =>
        \A k \in 1..Len(hist.modes) :
            /\ hist.modes[k] # -1
            /\ k = 1 => hist.modes[k] = 2
            /\ k > 1 => (StatusKnown /\ hist.modes[k] = hist.status.beaconMode)

\* ---- setBasicConfigurations ----

\* the configurations setBasicConfigurations takes
ConfigKeys == {"measurementInterval", "beaconMode", "txPowerLevel", "uuid"}

\* setBasicConfigurations has been called with a params object
ConfigCalled == hist.input # NoVal /\ hist.input.given

\* C22: setBasicConfigurations with a params object that names none of
\* measurementInterval, beaconMode, txPowerLevel, uuid issues no write, and
\* ends rejected.
C22_NoConfigurationRejected ==
    (ConfigCalled /\ DOMAIN hist.input.obj \cap ConfigKeys = {}) =>
        /\ hist.writes = 0
        /\ opKind # "write"
        /\ rpc = "done" => result.state = "rejected"

\* ---- scanning ----

\* a discover() or startScan() call is made in this step
ScanCallStep == shist'.calls = shist.calls + 1

\* noble.startScanning is called in this step
StartScanningStep == shist'.starts = shist.starts + 1

\* C23: discover() and startScan() throw, without calling noble.startScanning
\* or touching the scanner, when init() has not left _initialized true or
\* while _discover_status is true; noble.startScanning is called only while
\* no scan started by this object is running.
C23_NoScanWhileInProgress ==
    [][/\ (ScanCallStep /\ (~initialized \/ discover_status)) =>
              /\ shist'.last = "thrown"
              /\ ~StartScanningStep
              /\ UNCHANGED <<listeners, scanning, discover_status, devices, sessions>>
       /\ StartScanningStep => (initialized /\ ~discover_status /\ ~scanning)
       /\ scanning' = discover_status'
       /\ Len(listeners') = IF discover_status' THEN 1 ELSE 0]_vars

C23_Witness ==
    /\ discover_status
    /\ scanning
    /\ shist.starts = 1
    /\ shist.calls = 2
    /\ shist.last = "thrown"

\* ---- stopRecording on a recording device ----

\* getRecordingStatus has reported isRecording = true
RecordingSeen == StatusKnown /\ hist.status.isRecording

\* the engine holds a write of the advertise setting with this beacon mode
ModeWrite(mode) ==
    opKind = "write" /\ opChar = CH_ADV_SETTING /\ opData.beaconMode = mode

\* C24: stopRecording on a recording device asks for beacon mode 2 first and
\* asks for the mode read before the transition only in reaction to the write
\* of mode 2 having resolved; once it has resolved, the last write is that of
\* the original mode.  If the set to 2 fails, the call rejects with that error
\* and no restore is asked for.
C24_TransitThenRestore ==
    [][(Stopping /\ RecordingSeen) =>
          /\ Len(hist'.modes) <= 2
          /\ Len(hist'.modes) >= 1 => hist'.modes[1] = 2
          /\ Len(hist'.modes) = 2 => hist'.modes[2] = hist.status.beaconMode
          /\ (Len(hist.modes) = 1 /\ Len(hist'.modes) = 2) =>
                 (ModeWrite(2) /\ outcome.state = "resolved")
          /\ (rpc \in {"transit_read", "transit_write"} /\ outcome.state = "rejected"
                /\ rpc' # rpc) =>
                 /\ result' = Rejected(outcome.err)
                 /\ rpc' = "done"
                 /\ hist'.modes = hist.modes
          /\ result'.state = "resolved" =>
                 /\ ModeWrite(hist.status.beaconMode)'
                 /\ outcome'.state = "resolved"
                 /\ hist'.modes = <<2, hist.status.beaconMode>>
                 /\ hist'.writes = 2]_vars

C24_Witness ==
    /\ Stopping
    /\ RecordingSeen
    /\ hist.status.beaconMode = 8
    /\ hist.modes = <<2, 8>>
    /\ result.state = "resolved"
    /\ ModeWrite(8)

\* ---- discover() ----

\* discover() call i has been made and its promise is resolved
DiscoverResolved(i) == Len(sessions) >= i /\ sessions[i].promise.state = "resolved"

\* the promise of discover() call i is resolved in this step
DiscoverResolves(i) ==
    /\ Len(sessions) >= i
    /\ sessions[i].promise.state = "pending"
    /\ sessions'[i].promise.state = "resolved"

\* C25: the promise of a discover() call is resolved once and keeps its
\* value; it is resolved by its duration timer firing or, in quick mode, by
\* the advertisement that adds a device; at that moment the scan is stopped
\* and no 'discover' listener is left; the list is the set of addresses
\* registered for that moment, and ondiscover has been invoked at most once
\* per address since the latest discover() call.  With timers that fire,
\* every discover() call is resolved.
C25_DiscoverResolvesOnce ==
    /\ [][\A i \in 1..MaxCalls :
             /\ DiscoverResolved(i) => sessions'[i].promise = sessions[i].promise
             /\ DiscoverResolves(i) =>
                    /\ ~discover_status'
                    /\ ~scanning'
                    /\ listeners' = <<>>
                    /\ sessions'[i].promise.val = devices'
                    /\ \/ /\ sessions'[i].by = "timer"
                          /\ sessions[i].timer = "armed"
                          /\ sessions'[i].timer = "fired"
                          /\ devices' = devices
                       \/ /\ sessions'[i].by = "quick"
                          /\ sessions[i].quick
                          /\ Cardinality(devices') = Cardinality(devices) + 1
                          /\ sessions'[i].timer \in {"cleared", "fired"}
             /\ \A a \in Addresses : shist'.notified[a] <= 1]_vars
    /\ \A i \in 1..MaxCalls : (Len(sessions) >= i) ~> DiscoverResolved(i)

C25_Witness ==
    /\ DiscoverResolved(1)
    /\ sessions[1].by = "quick"
    /\ sessions[1].timer = "cleared"
    /\ sessions[1].promise.val = {"a1"}
    /\ shist.notified["a1"] = 1
    /\ ~discover_status

\* ---- the engine after the call has settled ----

\* a _read or _write has been called and its promise is settled
CallSettled == opKind # "none" /\ outcome.state # "pending"

\* C26: once a _read or _write has settled, no transport call is issued for
\* it any more.
C26_NoCallAfterSettlement ==
    [][CallSettled => calls' = calls]_vars

\* attempt i's timer has fired and its transport call is unanswered
Abandoned(i) == attempts[i].timer = "fired" /\ attempts[i].xfer = "inflight"

\* an attempt issued after attempt i is waiting: timer running, call unanswered
LaterAttemptPending(i) ==
    \E j \in (i + 1)..Len(attempts) :
        attempts[j].timer = "armed" /\ attempts[j].xfer = "inflight"

\* the transport callback of attempt i runs in this step
AnswerArrives(i) == attempts[i].xfer = "inflight" /\ attempts'[i].xfer # "inflight"

\* C27: the answer to an attempt whose timer has fired never settles the
\* call while a later attempt is waiting.
C27_AbandonedAnswerIgnored ==
    [][\A i \in 1..Len(attempts) :
          (Abandoned(i) /\ LaterAttemptPending(i) /\ AnswerArrives(i)) =>
              ~(outcome.state = "pending" /\ outcome'.state # "pending")]_vars

\* ---- startRecording ----

\* C28: startRecording on a device that is recording issues no write: neither
\* the advertise setting nor the time is written.
C28_NoWriteWhenRecording ==
    (Starting /\ RecordingSeen) =>
        /\ hist.writes = 0
        /\ hist.modes = <<>>
        /\ opKind # "write"

\* ---- ondisconnected ----

\* a 'disconnect' event has been emitted
DisconnectSeen == chist.events > 0

\* C29: a disconnect that disconnect() did not ask for is reported with
\* wasClean = false; wasClean = true is reported only for a disconnect that
\* disconnect() caused.
C29_WasCleanOnlyWhenRequested ==
    DisconnectSeen =>
        \A k \in 1..Len(chist.last.reports) :
            chist.last.reports[k] = TRUE => chist.last.requested

\* C30: ondisconnected is invoked at most once per 'disconnect' event.
C30_ReportedOncePerEvent ==
    DisconnectSeen => Len(chist.last.reports) <= 1

\* ---- startScan() and the timer of an earlier discover() ----

\* the scan in progress was started by startScan()
ScanSessionActive == scanning /\ listeners # <<>> /\ listeners[1].kind = "scan"

\* the scan is stopped or its listener removed in this step
ScanEnds == ~scanning' \/ listeners' = <<>>

\* C31: a scan started by startScan() is ended only by stopScan() called by
\* the user, never by a step of a discover() call (its duration timer).
C31_ScanEndsOnlyByStopScan ==
    [][(ScanSessionActive /\ ScanEnds) => sessions' = sessions]_vars

\* ---- the drain loop ----

\* C32: one retrieval issues at most 14 Response data reads and its list
\* holds at most 13 records, whatever the peripheral sends.
C32_DrainBounded ==
    /\ hist.dataReads <= MAX_ROW + 2
    /\ Len(data_list) <= MAX_ROW + 1
    /\ result.state = "resolved" => Len(result.val.dataList) <= MAX_ROW + 1

====
